---- MODULE Spec2Model ----
(***************************************************************************)
(* Model of splitwise_mcp.py: a FastAPI gateway that translates "intent"   *)
(* requests into calls against the Splitwise API.                          *)
(*                                                                         *)
(* One inbound request is followed from its arrival to its response.  A    *)
(* handler runs up to its only suspension point, the await inside          *)
(* call_splitwise; the downstream reply (or a transport failure) then      *)
(* completes it.  Requests share no state, so one request at a time is     *)
(* modelled and NextRequest starts the next one.                           *)
(*                                                                         *)
(* Money.  Python floats are modelled by the dyadic rationals k/8, written *)
(* as the integer k ("eighths"): every such value is an exact double, so   *)
(* f"{x:.2f}" and round(x, 2), both correctly rounded with ties to even on *)
(* the exact binary value, are computed exactly by RoundHalfEven.  For a   *)
(* participant count that is no multiple of 5 the quotient (k/8)/n is a    *)
(* cent tie only when it is itself an exact double, so the model agrees    *)
(* with the float computation for every count up to 4.  A formatted        *)
(* two-decimal string is represented by its value in cents.                *)
(*                                                                         *)
(* Optional values: None is <<>>, a present value v is <<v>>.              *)
(***************************************************************************)
EXTENDS Integers, Sequences, FiniteSets, TLC

VARIABLES pc, req, out, calls, reply, resp

vars == <<pc, req, out, calls, reply, resp>>

(* ------------------------------ bounds --------------------------------- *)
\* largest user / group / expense identifier; 0 is a legal integer too
MaxId == 2
\* longest participants list and longest owed_shares list
MaxParticipants == 3
\* largest small amount, in eighths of a currency unit
MaxAmount == 6
\* longest users list of a GroupIntent
MaxGroupUsers == 2

(* ------------------------------ helpers -------------------------------- *)
None == <<>>

Some(v) == <<v>>

IsNone(o) == Len(o) = 0

\* Python truthiness of an Optional[int]: None and 0 are falsy
TruthyInt(o) == ~IsNone(o) /\ o[1] # 0

\* Python truthiness of an Optional[str]: None and "" are falsy
TruthyStr(o) == ~IsNone(o) /\ o[1] # ""

\* Python truthiness of an Optional[list]: None and [] are falsy
TruthyList(o) == ~IsNone(o) /\ Len(o[1]) > 0

SeqsUpTo(S, n) == UNION {[1..m -> S] : m \in 0..n}

RECURSIVE SumCents(_, _)
SumCents(users, field) ==
    IF Len(users) = 0 THEN 0
    ELSE users[1][field] + SumCents(Tail(users), field)

\* num/den (num >= 0, den > 0) rounded to the nearest integer, ties to even
RoundHalfEven(num, den) ==
    LET q == num \div den
        r == num % den
    IN  IF 2 * r < den THEN q
        ELSE IF 2 * r > den THEN q + 1
        ELSE IF q % 2 = 0 THEN q ELSE q + 1

\* f"{x:.2f}" of the float x8/8, as cents
Fmt2(x8) == RoundHalfEven(25 * x8, 2)

\* variant: the share truncated to cents instead of rounded
RoundedShare_Truncated(amount8, n) == (25 * amount8) \div (2 * n)

\* f"{round(amount / n, 2):.2f}" of the float amount8/8, as cents
RoundedShare(amount8, n) == RoundHalfEven(25 * amount8, 2 * n)

(* --------------------------- input domains ----------------------------- *)
\* identifiers a caller can send; 0 is a legal integer
Ids == 0..MaxId

UserIds == 1..MaxId

\* amounts in eighths: 0 .. MaxAmount/8 and the 400.00 of the usage examples
ExampleAmount == 3200

Amounts == (0..MaxAmount) \cup {ExampleAmount}

\* owed shares in eighths: 0.125 and 0.375, both cent ties
Shares == {1, 3}

SplitTypes == {"equal", "shares", "unequal", "percent"}

\* ExpenseIntent (pydantic model); owed_shares is Optional
ExpenseIntent ==
    [user_id : UserIds,
     amount : Amounts,
     currency : {"INR"},
     description : {"Dinner"},
     participants : SeqsUpTo(UserIds, MaxParticipants),
     split_type : SplitTypes,
     owed_shares : {None} \cup {Some(s) : s \in SeqsUpTo(Shares, MaxParticipants)}]

\* FriendIntent (pydantic model)
FriendIntent ==
    [user_email : {"ann@example.org"},
     first_name : {None, Some(""), Some("Ann")},
     last_name : {None, Some(""), Some("Lee")}]

\* GroupIntent (pydantic model); users is Optional
GroupIntent ==
    [name : {"Trip"},
     group_type : {Some("other"), None},
     simplify_by_default : {Some(FALSE), Some(TRUE)},
     users : {None} \cup {Some(s) : s \in SeqsUpTo(UserIds, MaxGroupUsers)}]

\* what the downstream API answers: a status code and a body text.  A 200 or
\* 201 answer of the Splitwise API carries a JSON document.
JsonTexts == {"{}", "[]"}

Replies ==
    {[status_code |-> 200, text |-> "{}"],
     [status_code |-> 201, text |-> "[]"],
     [status_code |-> 204, text |-> "{}"],
     [status_code |-> 404, text |-> "not found"]}

\* response.json()
ParseJson(text) == IF text = "{}" THEN [json |-> "object"] ELSE [json |-> "array"]

(* --------------------------- responses --------------------------------- *)
\* raise HTTPException(status_code, detail): FastAPI answers {detail: ...}
HTTPException(status_code, detail) ==
    [status_code |-> status_code, content |-> [detail |-> detail]]

\* any other exception leaving a handler: 500 Internal Server Error
ServerError == [status_code |-> 500, content |-> [text |-> "Internal Server Error"]]

\* return {"status": "success", "data": api_resp} under response_model=MCPResponse
MCPResponse(api_resp) ==
    [status_code |-> 200, content |-> [status |-> "success", data |-> api_resp]]

Path(route, id) == [route |-> route, id |-> id]

(* --------------------------- state machine ----------------------------- *)
Init ==
    /\ pc = "idle"
    /\ req = None
    /\ out = None
    /\ calls = 0
    /\ reply = None
    /\ resp = None

\* a handler reaches `await client.request(...)` inside call_splitwise
Await(r, method, path, payload, params) ==
    /\ pc = "idle"
    /\ req' = Some(r)
    /\ out' = Some([method |-> method, path |-> path,
                    payload |-> payload, params |-> params,
                    authorization |-> "Bearer API_KEY"])
    /\ calls' = calls + 1
    /\ pc' = "awaiting"
    /\ UNCHANGED <<reply, resp>>

\* a handler ends without reaching call_splitwise
Respond(r, response) ==
    /\ pc = "idle"
    /\ req' = Some(r)
    /\ resp' = Some(response)
    /\ pc' = "done"
    /\ UNCHANGED <<out, calls, reply>>

\* GET /
root == Respond([op |-> "root"], [status_code |-> 200,
                                   content |-> [status |-> "Splitwise MCP is running"]])

(* --------------------------- create_expense ---------------------------- *)
\* variant: no else branch, every strategy but 'equal' is read as 'shares'
SplitBranch_NoElse(split_type) ==
    IF split_type = "equal" THEN "equal" ELSE "shares"

\* which branch of the if / elif / else on intent.split_type is taken
SplitBranch(split_type) ==
    IF split_type = "equal" THEN "equal"
    ELSE IF split_type \in {"shares", "unequal"} THEN "shares"
    ELSE "invalid"

\* variant: every participant is recorded as having paid the total
PaidShare_EveryonePays(intent, uid) == Fmt2(intent.amount)

\* paid = f"{intent.amount:.2f}" if uid == intent.user_id else "0.00"
PaidShare(intent, uid) ==
    IF uid = intent.user_id THEN Fmt2(intent.amount) ELSE 0

\* variant: the payer owes an equal share like everyone else
EqualOwed_PayerShares(intent, uid) ==
    RoundedShare(intent.amount, Len(intent.participants))

\* share = round(intent.amount / len(intent.participants), 2)
\* owed = f"{share:.2f}" if uid != intent.user_id else "0.00"
EqualOwed(intent, uid) ==
    IF uid # intent.user_id
    THEN RoundedShare(intent.amount, Len(intent.participants))
    ELSE 0

\* variant: the payer's supplied share is forced to 0.00 as in the 'equal' loop
SharesOwed_PayerZeroed(intent, idx) ==
    IF intent.participants[idx] = intent.user_id
    THEN 0
    ELSE Fmt2(intent.owed_shares[1][idx])

\* owed = f"{owed_share:.2f}", owed_share paired with uid by zip()
SharesOwed(intent, idx) == Fmt2(intent.owed_shares[1][idx])

\* variant: `is None` in place of the truthiness test, an empty list passes
OwedSharesInvalid_NoneOnly(intent) ==
    \/ IsNone(intent.owed_shares)
    \/ Len(intent.owed_shares[1]) # Len(intent.participants)

\* not intent.owed_shares or len(intent.owed_shares) != len(intent.participants)
OwedSharesInvalid(intent) ==
    \/ ~TruthyList(intent.owed_shares)
    \/ Len(intent.owed_shares[1]) # Len(intent.participants)

\* the users__{idx}__user_id / paid_share / owed_share keys of the 'equal'
\* loop; position idx + 1 of the sequence holds the keys of index idx
EqualUsers(intent) ==
    [i \in 1..Len(intent.participants) |->
        [user_id |-> intent.participants[i],
         paid_share |-> PaidShare(intent, intent.participants[i]),
         owed_share |-> EqualOwed(intent, intent.participants[i])]]

\* the same keys written by the 'shares' / 'unequal' loop
SharesUsers(intent) ==
    [i \in 1..Len(intent.participants) |->
        [user_id |-> intent.participants[i],
         paid_share |-> PaidShare(intent, intent.participants[i]),
         owed_share |-> SharesOwed(intent, i)]]

\* body = {"cost": ..., "description": ..., "currency_code": ...} plus the
\* per-participant keys
ExpenseBody(intent, users) ==
    [cost |-> Fmt2(intent.amount),
     description |-> intent.description,
     currency_code |-> intent.currency,
     users |-> users]

\* POST /mcp/create_expense
mcp_create_expense(intent) ==
    LET r == [op |-> "create_expense", args |-> intent]
        branch == SplitBranch(intent.split_type)
    IN  IF branch = "equal"
        THEN IF Len(intent.participants) = 0
             THEN \* intent.amount / 0 raises ZeroDivisionError
                  Respond(r, ServerError)
             ELSE Await(r, "POST", Path("/create_expense", None),
                        Some(ExpenseBody(intent, EqualUsers(intent))), None)
        ELSE IF branch = "shares"
        THEN IF OwedSharesInvalid(intent)
             THEN Respond(r, HTTPException(400, "owed_shares must be provided and match participants length"))
             ELSE Await(r, "POST", Path("/create_expense", None),
                        Some(ExpenseBody(intent, SharesUsers(intent))), None)
        ELSE Respond(r, HTTPException(400, "Invalid split_type"))

(* --------------------------- passthrough handlers ---------------------- *)
\* params = {}; if group_id: ...; elif user_id: ...
ListParams(user_id, group_id) ==
    IF TruthyInt(group_id) THEN {<<"group_id", group_id[1]>>}
    ELSE IF TruthyInt(user_id) THEN {<<"friend_id", user_id[1]>>}
    ELSE {}

\* GET /mcp/list_expenses
mcp_list_expenses(user_id, group_id) ==
    Await([op |-> "list_expenses", args |-> [user_id |-> user_id, group_id |-> group_id]],
          "GET", Path("/get_expenses", None), None, Some(ListParams(user_id, group_id)))

\* GET /mcp/get_expense/{expense_id}
mcp_get_expense(expense_id) ==
    Await([op |-> "get_expense", args |-> expense_id],
          "GET", Path("/get_expense", Some(expense_id)), None, None)

\* GET /mcp/get_balance/{user_id}: the user_id is not used
mcp_get_balance(user_id) ==
    Await([op |-> "get_balance", args |-> user_id],
          "GET", Path("/get_current_user", None), None, None)

\* body of create_group
GroupBody(intent) ==
    [name |-> intent.name,
     group_type |-> intent.group_type,
     simplify_by_default |-> intent.simplify_by_default,
     users |-> [i \in 1..Len(intent.users[1]) |-> [user_id |-> intent.users[1][i]]]]

\* POST /mcp/create_group
mcp_create_group(intent) ==
    LET r == [op |-> "create_group", args |-> intent]
    IN  IF IsNone(intent.users)
        THEN \* enumerate(None) raises TypeError
             Respond(r, ServerError)
        ELSE Await(r, "POST", Path("/create_group", None), Some(GroupBody(intent)), None)

\* POST /mcp/delete_group/{group_id}
mcp_delete_group(group_id) ==
    Await([op |-> "delete_group", args |-> group_id],
          "POST", Path("/delete_group", Some(group_id)), None, None)

\* GET /mcp/list_groups
mcp_list_groups ==
    Await([op |-> "list_groups"], "GET", Path("/get_groups", None), None, None)

\* GET /mcp/get_group/{group_id}
mcp_get_group(group_id) ==
    Await([op |-> "get_group", args |-> group_id],
          "GET", Path("/get_group", Some(group_id)), None, None)

\* GET /mcp/list_friends
mcp_list_friends ==
    Await([op |-> "list_friends"], "GET", Path("/get_friends", None), None, None)

\* body of add_friend: the name keys are written only for truthy names
FriendBody(intent) ==
    [user_email |-> Some(intent.user_email),
     user_first_name |-> IF TruthyStr(intent.first_name) THEN intent.first_name ELSE None,
     user_last_name |-> IF TruthyStr(intent.last_name) THEN intent.last_name ELSE None]

\* POST /mcp/add_friend
mcp_add_friend(intent) ==
    Await([op |-> "add_friend", args |-> intent],
          "POST", Path("/create_friend", None), Some(FriendBody(intent)), None)

\* POST /mcp/delete_friend/{friend_id}
mcp_delete_friend(friend_id) ==
    Await([op |-> "delete_friend", args |-> friend_id],
          "POST", Path("/delete_friend", Some(friend_id)), None, None)

(* --------------------------- call_splitwise ---------------------------- *)
\* variant: only the 4xx and 5xx statuses count as failures
IsFailureStatus_ErrorsOnly(status_code) == status_code >= 400

\* response.status_code not in (200, 201)
IsFailureStatus(status_code) == status_code \notin {200, 201}

\* what call_splitwise makes of the downstream answer
Outcome(r) ==
    IF IsFailureStatus(r.status_code)
    THEN HTTPException(r.status_code, r.text)
    ELSE MCPResponse(ParseJson(r.text))

\* client.request(...) returns; the handler resumes and ends
call_splitwise(r) ==
    /\ pc = "awaiting"
    /\ reply' = Some(r)
    /\ resp' = Some(Outcome(r))
    /\ pc' = "done"
    /\ UNCHANGED <<req, out, calls>>

\* client.request(...) raises (connection failure); nothing catches it
TransportError ==
    /\ pc = "awaiting"
    /\ resp' = Some(ServerError)
    /\ pc' = "done"
    /\ UNCHANGED <<req, out, calls, reply>>

\* the request is over; the next one starts from scratch
NextRequest ==
    /\ pc = "done"
    /\ pc' = "idle"
    /\ req' = None
    /\ out' = None
    /\ calls' = 0
    /\ reply' = None
    /\ resp' = None

\* a request arrives only when none is being handled; the guards stand in
\* front of the quantifiers so that the inputs are enumerated only then
Next ==
    \/ root
    \/ pc = "idle" /\ \E intent \in ExpenseIntent : mcp_create_expense(intent)
    \/ pc = "idle" /\ \E user_id \in {None} \cup {Some(i) : i \in Ids},
                         group_id \in {None} \cup {Some(i) : i \in Ids} :
                            mcp_list_expenses(user_id, group_id)
    \/ pc = "idle" /\ \E id \in Ids : mcp_get_expense(id)
    \/ pc = "idle" /\ \E id \in Ids : mcp_get_balance(id)
    \/ pc = "idle" /\ \E intent \in GroupIntent : mcp_create_group(intent)
    \/ pc = "idle" /\ \E id \in Ids : mcp_delete_group(id)
    \/ mcp_list_groups
    \/ pc = "idle" /\ \E id \in Ids : mcp_get_group(id)
    \/ mcp_list_friends
    \/ pc = "idle" /\ \E intent \in FriendIntent : mcp_add_friend(intent)
    \/ pc = "idle" /\ \E id \in Ids : mcp_delete_friend(id)
    \/ pc = "awaiting" /\ \E r \in Replies : call_splitwise(r)
    \/ TransportError
    \/ NextRequest

Spec == Init /\ [][Next]_vars

(* ------------------------- vocabulary of the claims --------------------- *)
IsOp(op) == ~IsNone(req) /\ req[1].op = op

\* the ExpenseIntent of the create_expense request in hand
Intent == req[1].args

\* the downstream request has been issued
Forwarded == ~IsNone(out)

\* the per-participant entries of the outbound create_expense body
Entries == out[1].payload[1].users

Count(seq, x) == Cardinality({i \in 1..Len(seq) : seq[i] = x})

Distinct(seq) == \A i, j \in 1..Len(seq) : i # j => seq[i] # seq[j]

Abs(x) == IF x < 0 THEN -x ELSE x

\* c cents is amount8/8 divided by n, rounded to a nearest cent
IsNearestCent(c, amount8, n) == Abs(2 * n * c - 25 * amount8) <= n

\* the request ended in the local validation failure, no call issued
RejectedLocally ==
    /\ pc = "done"
    /\ calls = 0
    /\ ~Forwarded
    /\ IsNone(reply)
    /\ resp[1].status_code = 400

\* the intent trips one of the two validations of create_expense
FailsValidation(intent) ==
    \/ intent.split_type \notin {"equal", "shares", "unequal"}
    \/ /\ intent.split_type \in {"shares", "unequal"}
       /\ \/ IsNone(intent.owed_shares)
          \/ Len(intent.owed_shares[1]) = 0
          \/ Len(intent.owed_shares[1]) # Len(intent.participants)

(* ------------------------------- C1 ------------------------------------ *)
\* C1: with strategy 'equal', a total > 0 and a non-empty list of distinct
\* participants that contains the payer, the owed amounts of the outbound
\* request sum to the total, within 0.01 per participant.
C1_EqualOwedSumsToTotal ==
    (/\ IsOp("create_expense")
     /\ Forwarded
     /\ Intent.split_type = "equal"
     /\ Intent.amount > 0
     /\ Len(Intent.participants) > 0
     /\ Distinct(Intent.participants)
     /\ Count(Intent.participants, Intent.user_id) = 1)
    => Abs(2 * SumCents(Entries, "owed_share") - 25 * Intent.amount)
         <= 2 * Len(Intent.participants)

(* ------------------------------- C2 ------------------------------------ *)
\* what C2 says of one forwarded allocation: the payer's entries carry the
\* total, the others 0.00, and the paid amounts sum to the total
PaidReconciles ==
    /\ \A i \in 1..Len(Entries) :
          Entries[i].paid_share =
             IF Entries[i].user_id = Intent.user_id THEN Fmt2(Intent.amount) ELSE 0
    /\ SumCents(Entries, "paid_share") = Fmt2(Intent.amount)

\* C2 as stated: for every create_expense intent that passes validation, the
\* paid amounts sum to the total (payer paid = total, non-payers paid = 0.00).
C2_PaidSumsToTotal_AsStated ==
    (IsOp("create_expense") /\ Forwarded) => PaidReconciles

\* C2 amended: the same, for every validated intent whose participant list
\* contains the payer exactly once.
C2_PaidSumsToTotal ==
    (/\ IsOp("create_expense")
     /\ Forwarded
     /\ Count(Intent.participants, Intent.user_id) = 1)
    => PaidReconciles

C2_Witness ==
    /\ IsOp("create_expense")
    /\ pc = "awaiting"
    /\ Intent.split_type = "shares"
    /\ Intent.amount = 3
    /\ Len(Intent.participants) = 3
    /\ Count(Intent.participants, Intent.user_id) = 1
    /\ SumCents(Entries, "paid_share") = 38

(* ------------------------------- C3 ------------------------------------ *)
\* C3: with strategy 'equal' the entry of the payer is (paid = total, owed =
\* 0.00) and the entry of every other participant is (paid = 0.00, owed =
\* total / participant count rounded to 2 decimals), the same share for all
\* of them; total = 400, participants = [1, 2], payer = 1 gives
\* (1, 400.00, 0.00), (2, 0.00, 200.00).
C3_EqualEntries ==
    (IsOp("create_expense") /\ Forwarded /\ Intent.split_type = "equal")
    => /\ Len(Entries) = Len(Intent.participants)
       /\ \A i \in 1..Len(Entries) :
             /\ Entries[i].user_id = Intent.participants[i]
             /\ Entries[i].user_id = Intent.user_id
                   => Entries[i].paid_share = Fmt2(Intent.amount)
                      /\ Entries[i].owed_share = 0
             /\ Entries[i].user_id # Intent.user_id
                   => Entries[i].paid_share = 0
                      /\ IsNearestCent(Entries[i].owed_share, Intent.amount,
                                       Len(Intent.participants))
       /\ \A i, j \in 1..Len(Entries) :
             (Entries[i].user_id # Intent.user_id /\ Entries[j].user_id # Intent.user_id)
                => Entries[i].owed_share = Entries[j].owed_share
       /\ (Intent.amount = ExampleAmount /\ Intent.participants = <<1, 2>>
             /\ Intent.user_id = 1)
             => Entries = <<[user_id |-> 1, paid_share |-> 40000, owed_share |-> 0],
                            [user_id |-> 2, paid_share |-> 0, owed_share |-> 20000]>>

\* an equal split three ways of 0.625, which no cent amount divides evenly
C3_Witness ==
    /\ IsOp("create_expense")
    /\ pc = "awaiting"
    /\ Intent.split_type = "equal"
    /\ Intent.amount = 5
    /\ Intent.participants = <<2, 1, 2>>
    /\ Intent.user_id = 1
    /\ Entries[1].owed_share = 21
    /\ Entries[2].owed_share = 0

(* ------------------------------- C4 ------------------------------------ *)
\* what C4 says of one request: it is forwarded, and entry i owes
\* owed_shares[i], written with 2 decimals, the payer's entry included
SharesForwardedVerbatim ==
    /\ Forwarded
    /\ calls = 1
    /\ Len(Entries) = Len(Intent.participants)
    /\ \A i \in 1..Len(Entries) :
          /\ Entries[i].user_id = Intent.participants[i]
          /\ Entries[i].owed_share = Fmt2(Intent.owed_shares[1][i])

\* C4 as stated: with strategy 'shares' or 'unequal' and an owed_shares list
\* as long as participants, entry i owes owed_shares[i] and the request is
\* forwarded, whether or not the shares sum to the total.
C4_SharesVerbatim_AsStated ==
    (/\ IsOp("create_expense")
     /\ Intent.split_type \in {"shares", "unequal"}
     /\ ~IsNone(Intent.owed_shares)
     /\ Len(Intent.owed_shares[1]) = Len(Intent.participants))
    => SharesForwardedVerbatim

\* C4 amended: the same, for a non-empty owed_shares list.
C4_SharesVerbatim ==
    (/\ IsOp("create_expense")
     /\ Intent.split_type \in {"shares", "unequal"}
     /\ ~IsNone(Intent.owed_shares)
     /\ Len(Intent.owed_shares[1]) > 0
     /\ Len(Intent.owed_shares[1]) = Len(Intent.participants))
    => SharesForwardedVerbatim

\* shares 0.375 + 0.125 against a total of 0.75, the payer owing 0.38
C4_Witness ==
    /\ IsOp("create_expense")
    /\ pc = "awaiting"
    /\ Intent.split_type = "unequal"
    /\ Intent.amount = 6
    /\ Intent.participants = <<1, 2>>
    /\ Intent.user_id = 1
    /\ Intent.owed_shares = Some(<<3, 1>>)
    /\ Entries[1].owed_share = 38
    /\ Entries[2].owed_share = 12

(* ------------------------------- C5 ------------------------------------ *)
\* C5 as stated: in every allocation, under any strategy, the payer's entry
\* has paid = total and owed = 0.
C5_PayerEntry_AsStated ==
    (IsOp("create_expense") /\ Forwarded)
    => \A i \in 1..Len(Entries) :
          Entries[i].user_id = Intent.user_id
             => Entries[i].paid_share = Fmt2(Intent.amount)
                /\ Entries[i].owed_share = 0

\* C5 amended: in every allocation, under any strategy, the payer's entry
\* has paid = total; its owed amount is 0 under 'equal' and is the payer's
\* own supplied share under 'shares' and 'unequal'.
C5_PayerEntry ==
    (IsOp("create_expense") /\ Forwarded)
    => \A i \in 1..Len(Entries) :
          Entries[i].user_id = Intent.user_id
             => /\ Entries[i].paid_share = Fmt2(Intent.amount)
                /\ Intent.split_type = "equal" => Entries[i].owed_share = 0
                /\ Intent.split_type # "equal"
                      => Entries[i].owed_share = Fmt2(Intent.owed_shares[1][i])

C5_Witness ==
    /\ IsOp("create_expense")
    /\ pc = "awaiting"
    /\ Intent.split_type = "equal"
    /\ Intent.amount = ExampleAmount
    /\ Intent.participants = <<1, 2>>
    /\ Intent.user_id = 2
    /\ Entries[2].paid_share = 40000
    /\ Entries[2].owed_share = 0
    /\ Entries[1].owed_share = 20000

(* ------------------------------- C6 ------------------------------------ *)
\* C6: a create_expense intent with strategy 'shares' or 'unequal' whose
\* owed_shares is absent, empty or of another length than participants ends
\* in a validation failure (status 400) with no downstream call issued.
C6_BadSharesRejected ==
    (/\ IsOp("create_expense")
     /\ Intent.split_type \in {"shares", "unequal"}
     /\ \/ IsNone(Intent.owed_shares)
        \/ Len(Intent.owed_shares[1]) = 0
        \/ Len(Intent.owed_shares[1]) # Len(Intent.participants))
    => RejectedLocally

\* an empty owed_shares list sent with an empty participants list
C6_Witness ==
    /\ IsOp("create_expense")
    /\ pc = "done"
    /\ Intent.split_type = "shares"
    /\ Intent.owed_shares = Some(<<>>)
    /\ Intent.participants = <<>>
    /\ resp[1].status_code = 400
    /\ calls = 0

(* ------------------------------- C7 ------------------------------------ *)
\* C7: a create_expense intent whose split strategy is none of 'equal',
\* 'shares', 'unequal' ends in a validation failure (status 400) with no
\* downstream call issued, whatever its other fields are.
C7_UnknownStrategyRejected ==
    (IsOp("create_expense") /\ Intent.split_type \notin {"equal", "shares", "unequal"})
    => RejectedLocally

\* an unknown strategy on an intent that is well formed otherwise
C7_Witness ==
    /\ IsOp("create_expense")
    /\ pc = "done"
    /\ Intent.split_type = "percent"
    /\ Intent.participants = <<1, 2>>
    /\ Intent.owed_shares = Some(<<1, 3>>)
    /\ resp[1].status_code = 400
    /\ calls = 0

(* ------------------------------- C8 ------------------------------------ *)
\* C8: handling one inbound request issues at most one downstream call,
\* never retried; a create_expense that passes validation issues exactly
\* one, every other operation of the gateway issues exactly one, and the
\* response is produced only after that call has returned.
C8_ExactlyOneCall ==
    /\ calls <= 1
    /\ (/\ ~IsNone(req)
        /\ ~IsOp("root")
        /\ IsOp("create_expense") => ~FailsValidation(Intent))
       => calls = 1 /\ Forwarded
    /\ pc = "awaiting" => IsNone(resp)
    /\ (pc = "done" /\ calls = 1) => ~IsNone(resp)

C10_ListFilter ==
    (IsOp("list_expenses") /\ Forwarded)
    => out[1].params[1] =
          IF ~IsNone(req[1].args.group_id)
          THEN {<<"group_id", req[1].args.group_id[1]>>}
          ELSE IF ~IsNone(req[1].args.user_id)
          THEN {<<"friend_id", req[1].args.user_id[1]>>}
          ELSE {}

====
